---- MODULE Spec2Model ----
(***************************************************************************)
(* Semantify 2.0 (src/app.py): one Streamlit script whose run renders five *)
(* tabs top to bottom over a per-session store, st.session_state.          *)
(*                                                                         *)
(* A text is a sequence of one-character strings.  Fixed literals of the   *)
(* program ("Class: ", " --[", ...) are kept as one element each.          *)
(***************************************************************************)
EXTENDS Integers, Sequences, FiniteSets, TLC

VARIABLES
    session_state,  \* st.session_state: a function on a subset of StoreKeys
    pc,             \* position of the script run: idle, tab1 .. tab5
    user_text,      \* value of the text area of tab 1
    generate_btn,   \* whether "Generate Ontology" was pressed in this run
    tab1,           \* what tab 1 showed: none, idle, warning, success, exception
    tab2,           \* what tab 2 showed: none, warning, graph
    graph,          \* the graph handed to the renderer: [nodes, edges]
    query,          \* value of the question input of tab 3
    tab3,           \* what tab 3 showed: none, warning, idle, results, nomatch
    found,          \* the list `found` of tab 3
    uploaded,       \* the uploaded file of tab 4: <<>> (none) or <<document>>
    tab4,           \* what tab 4 showed: none, warning, export, merged, exception
    downloads,      \* data of the two download buttons: <<>> or <<rdf, owl>>
    merged,         \* the serialised merged graph shown by tab 4: <<>> or <<document>>
    tab5,           \* whether tab 5 was rendered in this run: none, rendered
    lastGood,       \* history: <<text>> of the latest generate that completed, or <<>>
    prevGood        \* history: lastGood as it was before that generate

vars == <<session_state, pc, user_text, generate_btn, tab1, tab2, graph, query,
          tab3, found, uploaded, tab4, downloads, merged, tab5, lastGood, prevGood>>

---------------------------------------------------------------------------
(* Characters and the str methods the script uses.                         *)

UpperAlphabet == <<"A","B","C","D","E","F","G","H","I","J","K","L","M",
                   "N","O","P","Q","R","S","T","U","V","W","X","Y","Z">>
LowerAlphabet == <<"a","b","c","d","e","f","g","h","i","j","k","l","m",
                   "n","o","p","q","r","s","t","u","v","w","x","y","z">>

UpperLetters == {UpperAlphabet[i] : i \in 1..Len(UpperAlphabet)}
LowerLetters == {LowerAlphabet[i] : i \in 1..Len(LowerAlphabet)}
Digits == {"0","1","2","3","4","5","6","7","8","9"}
WordChars == UpperLetters \cup LowerLetters \cup Digits \cup {"_"}
Whitespace == {" ", "\n", "\t"}
Terminators == {".", "?", "!"}

ToLower(c) ==
    IF c \in UpperLetters
    THEN LowerAlphabet[CHOOSE i \in 1..Len(UpperAlphabet) : UpperAlphabet[i] = c]
    ELSE c

ToUpper(c) ==
    IF c \in LowerLetters
    THEN UpperAlphabet[CHOOSE i \in 1..Len(LowerAlphabet) : LowerAlphabet[i] = c]
    ELSE c

\* str.lower()
Lower(s) == [i \in 1..Len(s) |-> ToLower(s[i])]

\* Mutant of Capitalize: the characters after the first keep their case.
CapitalizeFirstOnly(s) == [i \in 1..Len(s) |-> IF i = 1 THEN ToUpper(s[i]) ELSE s[i]]

\* str.capitalize(): first character upper-cased, the rest lower-cased
Capitalize(s) == [i \in 1..Len(s) |-> IF i = 1 THEN ToUpper(s[i]) ELSE ToLower(s[i])]

\* str.replace(from, to) for one-character from and to
Replace(s, from, to) == [i \in 1..Len(s) |-> IF s[i] = from THEN to ELSE s[i]]

RECURSIVE LStrip(_)
LStrip(s) ==
    IF Len(s) > 0 /\ Head(s) \in Whitespace THEN LStrip(Tail(s)) ELSE s

RECURSIVE RStrip(_)
RStrip(s) ==
    IF Len(s) > 0 /\ s[Len(s)] \in Whitespace
    THEN RStrip(SubSeq(s, 1, Len(s) - 1))
    ELSE s

\* str.strip()
Strip(s) == RStrip(LStrip(s))

RECURSIVE ReSplitFrom(_, _)
ReSplitFrom(s, cur) ==
    IF Len(s) = 0 THEN <<cur>>
    ELSE IF Head(s) \in Terminators
         THEN <<cur>> \o ReSplitFrom(Tail(s), <<>>)
         ELSE ReSplitFrom(Tail(s), Append(cur, Head(s)))

\* re.split(r'[.?!]', s): the pieces between terminators, empty ones kept
ReSplit(s) == ReSplitFrom(s, <<>>)

RECURSIVE SplitFrom(_, _)
SplitFrom(s, cur) ==
    LET flush == IF Len(cur) = 0 THEN <<>> ELSE <<cur>>
    IN  IF Len(s) = 0 THEN flush
        ELSE IF Head(s) \in Whitespace
             THEN flush \o SplitFrom(Tail(s), <<>>)
             ELSE SplitFrom(Tail(s), Append(cur, Head(s)))

\* str.split(): the maximal runs of non-whitespace
Split(s) == SplitFrom(s, <<>>)

RECURSIVE Join(_, _)
\* sep.join(parts)
Join(parts, sep) ==
    IF Len(parts) = 0 THEN <<>>
    ELSE IF Len(parts) = 1 THEN parts[1]
         ELSE parts[1] \o sep \o Join(Tail(parts), sep)

\* `needle in hay` for strings
Contains(hay, needle) ==
    \E i \in 0..(Len(hay) - Len(needle)) :
        \A k \in 1..Len(needle) : hay[i + k] = needle[k]

---------------------------------------------------------------------------
(* re.findall(r'\b[A-Z]?[a-z]{3,}\b', s)                                   *)

MinLower == 3

\* \b before position i (1 .. Len(s)+1)
IsBoundary(s, i) ==
    LET before == i > 1 /\ s[i - 1] \in WordChars
        after == i <= Len(s) /\ s[i] \in WordChars
    IN  before # after

RECURSIVE LowerRun(_, _)
\* the number of consecutive lower-case letters from position i
LowerRun(s, i) ==
    IF i <= Len(s) /\ s[i] \in LowerLetters THEN 1 + LowerRun(s, i + 1) ELSE 0

\* The length of the match starting at i, 0 when there is none.  The greedy
\* run is the only candidate: a shorter run ends between two letters, where
\* \b cannot hold.
MatchAt(s, i) ==
    LET try(start) ==
            LET n == LowerRun(s, start)
            IN  IF n >= MinLower /\ IsBoundary(s, start + n)
                THEN (start - i) + n ELSE 0
    IN  IF ~IsBoundary(s, i) THEN 0
        ELSE IF s[i] \in UpperLetters
             THEN (IF try(i + 1) > 0 THEN try(i + 1) ELSE try(i))
             ELSE try(i)

RECURSIVE FindAllFrom(_, _)
FindAllFrom(s, i) ==
    IF i > Len(s) THEN <<>>
    ELSE LET m == MatchAt(s, i)
         IN  IF m > 0
             THEN <<SubSeq(s, i, i + m - 1)>> \o FindAllFrom(s, i + m)
             ELSE FindAllFrom(s, i + 1)

FindAll(s) == FindAllFrom(s, 1)

---------------------------------------------------------------------------
(* Tab 1: concept and triple extraction.                                   *)

MinParts == 3

Range(f) == {f[i] : i \in DOMAIN f}

\* words = re.findall(...); concepts.add(w.lower())
SentenceConcepts(s) == {Lower(w) : w \in Range(FindAll(s))}

Subject(parts) == Capitalize(parts[1])

\* Mutant of Predicate: the slice starts one part late, parts[2:-1].
PredicateLateStart(parts) == Join(SubSeq(parts, 3, Len(parts) - 1), <<" ">>)

Predicate(parts) == Join(SubSeq(parts, 2, Len(parts) - 1), <<" ">>)

Object(parts) == Capitalize(parts[Len(parts)])

\* parts = s.split(); one relation when there are at least three parts
SentenceRelations(s) ==
    LET parts == Split(s)
    IN  IF Len(parts) >= MinParts
        THEN << <<Subject(parts), Predicate(parts), Object(parts)>> >>
        ELSE <<>>

RECURSIVE ExtractFrom(_, _, _)
\* the loop over the sentences, with its two accumulators
ExtractFrom(sentences, concepts, relations) ==
    IF Len(sentences) = 0
    THEN [concepts |-> concepts, relations |-> relations]
    ELSE LET s == Strip(Head(sentences))
         IN  IF Len(s) = 0
             THEN ExtractFrom(Tail(sentences), concepts, relations)
             ELSE ExtractFrom(Tail(sentences),
                              concepts \cup SentenceConcepts(s),
                              relations \o SentenceRelations(s))

Extract(text) == ExtractFrom(ReSplit(text), {}, <<>>)

---------------------------------------------------------------------------
(* Tab 1: the RDF graph and its Turtle text.                               *)
(* A node is <<namespace, local name>>; a statement is a triple of nodes.  *)
(* A Turtle document is a set of blocks, one subject with its              *)
(* predicate-object list each; the serialiser writes one block a subject.  *)

EX(local) == <<"ex", local>>
RDF_type == <<"rdf", <<"type">>>>
RDFS_Class == <<"rdfs", <<"Class">>>>

\* Mutant of RelationStatements: the object is given no type.
RelationStatementsUntypedObject(r) ==
    { <<EX(r[1]), RDF_type, RDFS_Class>>,
      <<EX(r[1]), EX(Replace(r[2], " ", "_")), EX(r[3])>> }

RelationStatements(r) ==
    LET subj_uri == EX(r[1])
        obj_uri == EX(r[3])
    IN  { <<subj_uri, RDF_type, RDFS_Class>>,
          <<obj_uri, RDF_type, RDFS_Class>>,
          <<subj_uri, EX(Replace(r[2], " ", "_")), obj_uri>> }

BuildGraph(relations) ==
    UNION {RelationStatements(relations[i]) : i \in 1..Len(relations)}

\* characters rdflib refuses in a URI it is to write as Turtle (the quote,
\* the backslash and the backquote, also refused, are left out of the alphabet)
InvalidUriChars == {"<", ">", " ", "{", "}", "|", "^"}

ValidUri(node) == \A i \in 1..Len(node[2]) : node[2][i] \notin InvalidUriChars

ValidGraph(g) == \A t \in g : ValidUri(t[1]) /\ ValidUri(t[2]) /\ ValidUri(t[3])

\* Graph.serialize(format='turtle')
Serialize(g) ==
    { [s |-> subj, po |-> {<<t[2], t[3]>> : t \in {u \in g : u[1] = subj}}] :
        subj \in {t[1] : t \in g} }

DocStatements(doc) == UNION {{<<b.s, x[1], x[2]>> : x \in b.po} : b \in doc}

\* whether Graph.parse(..., format='turtle') accepts the document
WellFormed(doc) == ValidGraph(DocStatements(doc))

\* Graph.parse(..., format='turtle') of a well-formed document
Parse(doc) == DocStatements(doc)

---------------------------------------------------------------------------
(* Tab 1: the OWL listing.                                                 *)

\* the orders in which `for c in concepts` may visit a set
Orders(S) ==
    {f \in [1..Cardinality(S) -> S] : \A i, j \in DOMAIN f : f[i] = f[j] => i = j}

ClassLine(c) == <<"Class: ">> \o Capitalize(c)

PropertyLine(r) ==
    <<"ObjectProperty: ">> \o Replace(r[2], " ", "_")
        \o <<"\n", "  Domain: ">> \o r[1] \o <<"\n", "  Range: ">> \o r[3]

\* owl_output, then "\n".join(owl_output)
OwlText(order, relations) ==
    Join([i \in 1..Len(order) |-> ClassLine(order[i])]
            \o [i \in 1..Len(relations) |-> PropertyLine(relations[i])],
         <<"\n">>)

---------------------------------------------------------------------------
(* The session store and the handlers of the tabs.                         *)

StoreKeys == {"relations", "concepts", "rdf", "owl"}

EmptyStore == [k \in {} |-> {}]

\* st.session_state[k] = v
SetItem(ss, k, v) == [x \in (DOMAIN ss) \cup {k} |-> IF x = k THEN v ELSE ss[x]]

\* Mutant of ShouldGenerate: the text is tested without strip().
ShouldGenerateNoStrip(btn, text) == btn /\ Len(text) > 0

\* if generate_btn and user_text.strip()
ShouldGenerate(btn, text) == btn /\ Len(Strip(text)) > 0

\* Whether rdf_graph.serialize raises.  rdflib 6 and later refuse to write an
\* invalid URI and raise; earlier releases warn and write it.  The repository
\* pins no release, so an invalid graph has both outcomes.
SerializeOutcomes(g) == IF ValidGraph(g) THEN {FALSE} ELSE BOOLEAN

\* Mutant of StoreWrite: the new relations and concepts are added to the old.
StoreWriteAccumulate(ss, relations, concepts, rdf_data, owl_text) ==
    [k \in StoreKeys |->
        CASE k = "relations" ->
                 IF k \in DOMAIN ss THEN ss[k] \o relations ELSE relations
          [] k = "concepts" ->
                 IF k \in DOMAIN ss THEN ss[k] \cup concepts ELSE concepts
          [] k = "rdf" -> rdf_data
          [] OTHER -> owl_text]

\* the four assignments that end the generate branch
StoreWrite(ss, relations, concepts, rdf_data, owl_text) ==
    SetItem(SetItem(SetItem(SetItem(ss, "relations", relations),
                            "concepts", concepts),
                    "rdf", rdf_data),
            "owl", owl_text)

\* Mutant of GenerateStore: relations and concepts are stored before serialize.
GenerateStoreEarlyWrite(ss, text, order, raises) ==
    LET ex == Extract(text)
        early == SetItem(SetItem(ss, "relations", ex.relations), "concepts", ex.concepts)
    IN  IF raises
        THEN early
        ELSE SetItem(SetItem(early, "rdf", Serialize(BuildGraph(ex.relations))),
                     "owl", OwlText(order, ex.relations))

\* The store after the generate branch: an exception raised by serialize
\* leaves the branch before the assignments.
GenerateStore(ss, text, order, raises) ==
    LET ex == Extract(text)
        rdf_graph == BuildGraph(ex.relations)
    IN  IF raises
        THEN ss
        ELSE StoreWrite(ss, ex.relations, ex.concepts,
                        Serialize(rdf_graph), OwlText(order, ex.relations))

\* Mutant of HasRelations: an empty relation list counts as no store.
HasRelationsNonEmpty(ss) == "relations" \in DOMAIN ss /\ Len(ss["relations"]) > 0

\* if 'relations' in st.session_state
HasRelations(ss) == "relations" \in DOMAIN ss

\* if 'rdf' in st.session_state and 'owl' in st.session_state
HasExports(ss) == "rdf" \in DOMAIN ss /\ "owl" \in DOMAIN ss

GraphChoices == {"pyvis", "networkx", "graphviz"}

NoGraph == [nodes |-> {}, edges |-> <<>>]

RECURSIVE NxEdges(_, _)
\* nx.DiGraph.add_edge: one edge for a pair of endpoints, the last label kept
NxEdges(relations, edges) ==
    IF Len(relations) = 0 THEN edges
    ELSE LET r == Head(relations)
             same == {i \in 1..Len(edges) : edges[i][1] = r[1] /\ edges[i][2] = r[3]}
         IN  NxEdges(Tail(relations),
                     IF same = {}
                     THEN Append(edges, <<r[1], r[3], r[2]>>)
                     ELSE [i \in 1..Len(edges) |->
                              IF i \in same THEN <<r[1], r[3], r[2]>> ELSE edges[i]])

\* the graph each renderer is given
RenderGraph(choice, relations) ==
    [nodes |-> UNION {{relations[i][1], relations[i][3]} : i \in 1..Len(relations)},
     edges |-> IF choice = "networkx"
               THEN NxEdges(relations, <<>>)
               ELSE [i \in 1..Len(relations) |->
                        <<relations[i][1], relations[i][3], relations[i][2]>>]]

\* f"{subj} --[{pred}]--> {obj}"
Describe(r) == r[1] \o <<" --[">> \o r[2] \o <<"]--> ">> \o r[3]

\* Mutant of Matches: the comparison is case-sensitive.
MatchesCaseSensitive(r, q) == Contains(q, r[1]) \/ Contains(q, r[3])

\* subj.lower() in query.lower() or obj.lower() in query.lower()
Matches(r, q) ==
    Contains(Lower(q), Lower(r[1])) \/ Contains(Lower(q), Lower(r[3]))

RECURSIVE RunQuery(_, _)
\* the loop that fills `found`
RunQuery(relations, q) ==
    IF Len(relations) = 0 THEN <<>>
    ELSE (IF Matches(Head(relations), q) THEN <<Describe(Head(relations))>> ELSE <<>>)
            \o RunQuery(Tail(relations), q)

\* Mutant of MergeGraphs: an uploaded statement replaces the base statements
\* with its subject and predicate.
MergeGraphsReconcile(base, file) ==
    LET new_graph == Parse(file)
        kept == {t \in Parse(base) :
                    \A u \in new_graph : ~(u[1] = t[1] /\ u[2] = t[2] /\ u[3] # t[3])}
    IN  kept \cup new_graph

\* new_graph.parse(uploaded); merged.parse(data=rdf); merged.add each statement
MergeGraphs(base, file) ==
    LET new_graph == Parse(file)
        merged0 == Parse(base)
    IN  merged0 \cup new_graph

---------------------------------------------------------------------------
(* Inputs.                                                                 *)

\* "aaa b Bab."
Text1 == <<"a","a","a"," ","b"," ","B","a","b",".">>
\* "bAAb baaa  b Abbb! a b"
Text2 == <<"b","A","A","b"," ","b","a","a","a"," "," ","b"," ","A","b","b","b","!",
           " ","a"," ","b">>
\* "b a aaa. aaa b bb? ab bb ab! b bb aaa"
Text3 == <<"b"," ","a"," ","a","a","a","."," ","a","a","a"," ","b"," ","b","b","?",
           " ","a","b"," ","b","b"," ","a","b","!",
           " ","b"," ","b","b"," ","a","a","a">>
\* "a < b": a predicate that is no valid URI
Text4 == <<"a"," ","<"," ","b">>

SampleTexts ==
    { <<>>, <<" ", "\n">>, <<".">>, Text1, Text2, Text3, Text4 }

SampleQueries ==
    { <<>>,
      <<"w","h","a","t"," ","A","A","A","?">>,
      <<"b","a","b">>,
      <<"x"," ","b","!">>,
      <<"z","z">> }

Aaa == EX(<<"A","a","a">>)
Bab == EX(<<"B","a","b">>)

SampleFiles ==
    { {},
      { [s |-> Aaa, po |-> {<<RDF_type, RDFS_Class>>, <<EX(<<"b">>), Bab>>}] },
      { [s |-> Aaa, po |-> {<<RDF_type, RDFS_Class>>, <<EX(<<"b">>), Aaa>>}],
        [s |-> Aaa, po |-> {<<EX(<<"b">>), EX(<<"Z">>)>>}],
        [s |-> EX(<<"Z">>), po |-> {<<RDF_type, Aaa>>}] },
      { [s |-> EX(<<"<">>), po |-> {<<RDF_type, RDFS_Class>>}] } }

\* what the uploader may hold: nothing, or one file
Uploads == {<<>>} \cup {<<f>> : f \in SampleFiles}

---------------------------------------------------------------------------
(* The script run.                                                         *)

Init ==
    /\ session_state = EmptyStore
    /\ pc = "idle"
    /\ user_text = <<>>
    /\ generate_btn = FALSE
    /\ tab1 = "none"
    /\ tab2 = "none"
    /\ graph = NoGraph
    /\ query = <<>>
    /\ tab3 = "none"
    /\ found = <<>>
    /\ uploaded = <<>>
    /\ tab4 = "none"
    /\ downloads = <<>>
    /\ merged = <<>>
    /\ tab5 = "none"
    /\ lastGood = <<>>
    /\ prevGood = <<>>

\* a widget interaction starts the script again from its first line
StartRun ==
    /\ pc = "idle"
    /\ pc' = "tab1"
    /\ user_text' = <<>>
    /\ generate_btn' = FALSE
    /\ tab1' = "none"
    /\ tab2' = "none"
    /\ graph' = NoGraph
    /\ query' = <<>>
    /\ tab3' = "none"
    /\ found' = <<>>
    /\ uploaded' = <<>>
    /\ tab4' = "none"
    /\ downloads' = <<>>
    /\ merged' = <<>>
    /\ tab5' = "none"
    /\ UNCHANGED <<session_state, lastGood, prevGood>>

OntologyBuilder(text, btn) ==
    /\ pc = "tab1"
    /\ user_text' = text
    /\ generate_btn' = btn
    /\ IF ShouldGenerate(btn, text)
       THEN \E order \in Orders(Extract(text).concepts),
               raises \in SerializeOutcomes(BuildGraph(Extract(text).relations)) :
                /\ session_state' = GenerateStore(session_state, text, order, raises)
                /\ tab1' = IF raises THEN "exception" ELSE "success"
                /\ lastGood' = IF raises THEN lastGood ELSE <<text>>
                /\ prevGood' = IF raises THEN prevGood ELSE lastGood
                /\ pc' = IF raises THEN "idle" ELSE "tab2"
       ELSE /\ session_state' = session_state
            /\ tab1' = IF btn THEN "warning" ELSE "idle"
            /\ lastGood' = lastGood
            /\ prevGood' = prevGood
            /\ pc' = "tab2"
    /\ UNCHANGED <<tab2, graph, query, tab3, found, uploaded, tab4, downloads,
                   merged, tab5>>

GraphVisualization(choice) ==
    /\ pc = "tab2"
    /\ IF HasRelations(session_state)
       THEN /\ tab2' = "graph"
            /\ graph' = RenderGraph(choice, session_state["relations"])
       ELSE /\ tab2' = "warning"
            /\ graph' = NoGraph
    /\ pc' = "tab3"
    /\ UNCHANGED <<session_state, user_text, generate_btn, tab1, query, tab3,
                   found, uploaded, tab4, downloads, merged, tab5, lastGood, prevGood>>

SemanticQueries(q, btn) ==
    /\ pc = "tab3"
    /\ IF HasRelations(session_state)
       THEN LET result == RunQuery(session_state["relations"], q)
            IN  /\ query' = q
                /\ found' = IF btn THEN result ELSE <<>>
                /\ tab3' = IF ~btn THEN "idle"
                           ELSE IF Len(result) > 0 THEN "results" ELSE "nomatch"
       ELSE /\ query' = <<>>
            /\ found' = <<>>
            /\ tab3' = "warning"
    /\ pc' = "tab4"
    /\ UNCHANGED <<session_state, user_text, generate_btn, tab1, tab2, graph,
                   uploaded, tab4, downloads, merged, tab5, lastGood, prevGood>>

\* An exception of either parse is not caught: it ends the script run.
ExportMerge(file) ==
    /\ pc = "tab4"
    /\ IF HasExports(session_state)
       THEN /\ downloads' = <<session_state["rdf"], session_state["owl"]>>
            /\ uploaded' = file
            /\ IF file = <<>>
               THEN /\ tab4' = "export"
                    /\ merged' = <<>>
                    /\ pc' = "tab5"
               ELSE IF WellFormed(file[1]) /\ WellFormed(session_state["rdf"])
                    THEN /\ tab4' = "merged"
                         /\ merged' = <<Serialize(MergeGraphs(session_state["rdf"], file[1]))>>
                         /\ pc' = "tab5"
                    ELSE /\ tab4' = "exception"
                         /\ merged' = <<>>
                         /\ pc' = "idle"
       ELSE /\ downloads' = <<>>
            /\ uploaded' = <<>>
            /\ tab4' = "warning"
            /\ merged' = <<>>
            /\ pc' = "tab5"
    /\ UNCHANGED <<session_state, user_text, generate_btn, tab1, tab2, graph,
                   query, tab3, found, tab5, lastGood, prevGood>>

SemanticWebLayers ==
    /\ pc = "tab5"
    /\ tab5' = "rendered"
    /\ pc' = "idle"
    /\ UNCHANGED <<session_state, user_text, generate_btn, tab1, tab2, graph,
                   query, tab3, found, uploaded, tab4, downloads, merged, lastGood,
                   prevGood>>

Next ==
    \/ StartRun
    \/ \E text \in SampleTexts, btn \in BOOLEAN : OntologyBuilder(text, btn)
    \/ \E choice \in GraphChoices : GraphVisualization(choice)
    \/ \E q \in SampleQueries, btn \in BOOLEAN : SemanticQueries(q, btn)
    \/ \E file \in Uploads : ExportMerge(file)
    \/ SemanticWebLayers

Spec == Init /\ [][Next]_vars

---------------------------------------------------------------------------
(* The extraction alone, over every text of at most MaxTokens tokens.      *)

MaxTokens == 4

Tokens == { <<"a","B">>, <<"a","a","a">>, <<"b">> }

Separators == { <<" ">>, <<" "," ">>, <<".">> }

RECURSIVE TextsOf(_)
TextsOf(n) ==
    IF n = 0 THEN {<<>>}
    ELSE IF n = 1 THEN Tokens
         ELSE {t \o sep \o tok : t \in TextsOf(n - 1), sep \in Separators, tok \in Tokens}

ExtractTexts == UNION {TextsOf(n) : n \in 0..MaxTokens}

InitExtract ==
    /\ session_state = EmptyStore
    /\ pc = "tab1"
    /\ user_text \in ExtractTexts
    /\ generate_btn = TRUE
    /\ tab1 = "none"
    /\ tab2 = "none"
    /\ graph = NoGraph
    /\ query = <<>>
    /\ tab3 = "none"
    /\ found = <<>>
    /\ uploaded = <<>>
    /\ tab4 = "none"
    /\ downloads = <<>>
    /\ merged = <<>>
    /\ tab5 = "none"
    /\ lastGood = <<>>
    /\ prevGood = <<>>

NextExtract == OntologyBuilder(user_text, generate_btn)

SpecExtract == InitExtract /\ [][NextExtract]_vars

---------------------------------------------------------------------------
(* Properties.                                                             *)

Blank(text) == \A i \in 1..Len(text) : text[i] \in Whitespace

\* C1: a generate action whose text is empty or whitespace-only shows the
\* warning and leaves the session store as it was: each of the four keys is
\* absent afterwards iff it was absent before, and keeps its value when present.
C1_BlankGenerateKeepsStore ==
    [][ (pc = "tab1" /\ generate_btn' /\ Blank(user_text'))
            => /\ tab1' = "warning"
               /\ \A k \in StoreKeys :
                    /\ (k \in DOMAIN session_state') <=> (k \in DOMAIN session_state)
                    /\ k \in DOMAIN session_state => session_state'[k] = session_state[k]
      ]_vars

\* a whitespace-only generate has just run over a store that holds relations
C1_Witness ==
    /\ pc = "tab2"
    /\ generate_btn
    /\ Len(user_text) > 0
    /\ Blank(user_text)
    /\ tab1 = "warning"
    /\ HasRelations(session_state)
    /\ Len(session_state["relations"]) > 0

\* C2: after any sequence of generate actions the stored concepts and
\* relations are exactly what extraction yields from the text of the latest
\* generate that completed; nothing of an earlier generation survives.
C2_StoreIsLatestGeneration ==
    lastGood # <<>> =>
        /\ HasRelations(session_state)
        /\ "concepts" \in DOMAIN session_state
        /\ session_state["relations"] = Extract(lastGood[1]).relations
        /\ session_state["concepts"] = Extract(lastGood[1]).concepts

\* a generation of one relation has replaced a generation of four
C2_Witness ==
    /\ prevGood = <<Text3>>
    /\ lastGood = <<Text1>>
    /\ Len(Extract(Text3).relations) = 4
    /\ Len(session_state["relations"]) = 1

\* C3: the store is never a partial update: its four keys are all absent or
\* all present, and when present all come from the same generation, rdf and
\* owl being the projection of the stored relations and concepts; also after
\* a generate action that an exception abandoned.
C3_NoPartialStore ==
    /\ DOMAIN session_state \in {{}, StoreKeys}
    /\ DOMAIN session_state = StoreKeys =>
        /\ lastGood # <<>>
        /\ session_state["relations"] = Extract(lastGood[1]).relations
        /\ session_state["concepts"] = Extract(lastGood[1]).concepts
        /\ DocStatements(session_state["rdf"]) = BuildGraph(session_state["relations"])
        /\ \E order \in Orders(session_state["concepts"]) :
                session_state["owl"] = OwlText(order, session_state["relations"])

\* a generate over an existing store was abandoned by an exception
C3_Witness ==
    /\ pc = "idle"
    /\ tab1 = "exception"
    /\ DOMAIN session_state = StoreKeys
    /\ lastGood # <<user_text>>

\* C4: while no generation has completed, visualize, query and export/merge
\* show the "generate first" warning whenever they run and produce nothing
\* else; once a generation has completed, even one of zero relations, none of
\* them shows that warning again, whatever blank generate attempts follow.
C4_AbsenceIsNotYetGenerated ==
    /\ lastGood = <<>> =>
        /\ tab2 \in {"none", "warning"}
        /\ tab3 \in {"none", "warning"}
        /\ tab4 \in {"none", "warning"}
        /\ graph = NoGraph
        /\ found = <<>>
        /\ downloads = <<>>
        /\ merged = <<>>
    /\ lastGood # <<>> =>
        /\ tab2 # "warning"
        /\ tab3 # "warning"
        /\ tab4 # "warning"

\* after a generation of zero relations and a later blank attempt, the three
\* tabs ran without the warning
C4_Witness ==
    /\ lastGood # <<>>
    /\ Len(Extract(lastGood[1]).relations) = 0
    /\ tab1 = "warning"
    /\ tab2 = "graph"
    /\ tab3 \in {"idle", "nomatch"}
    /\ tab4 \in {"export", "merged"}

\* the sentences of a text that yield a relation, in order
Qualifies(s) == Len(Split(s)) >= MinParts
QualifyingSentences(text) == SelectSeq(ReSplit(text), Qualifies)

\* one relation for each qualifying sentence of the generated text
RelationsAligned ==
    Len(session_state["relations"]) = Len(QualifyingSentences(user_text))

\* C5 as claimed: subject and object are the first and last token with the
\* first letter upper-cased and every other character as originally cased.
C5_RestKeepsCase ==
    tab1 = "success" =>
        /\ RelationsAligned
        /\ \A i \in 1..Len(session_state["relations"]) :
            LET parts == Split(QualifyingSentences(user_text)[i])
                r == session_state["relations"][i]
                keeps(out, tok) ==
                    /\ Len(out) = Len(tok)
                    /\ out[1] = ToUpper(tok[1])
                    /\ \A k \in 2..Len(tok) : out[k] = tok[k]
            IN  keeps(r[1], parts[1]) /\ keeps(r[3], parts[Len(parts)])

\* C5 as amended: subject and object are the first and last token with the
\* first character upper-cased and every other character lower-cased.
C5_RestIsLowered ==
    tab1 = "success" =>
        /\ RelationsAligned
        /\ \A i \in 1..Len(session_state["relations"]) :
            LET parts == Split(QualifyingSentences(user_text)[i])
                r == session_state["relations"][i]
                lowered(out, tok) ==
                    /\ Len(out) = Len(tok)
                    /\ out[1] = ToUpper(tok[1])
                    /\ \A k \in 2..Len(tok) : out[k] = ToLower(tok[k])
            IN  lowered(r[1], parts[1]) /\ lowered(r[3], parts[Len(parts)])

\* a relation whose first token has an upper-case letter after position 1
C5_Witness ==
    /\ tab1 = "success"
    /\ \E i \in 1..Len(session_state["relations"]) :
        LET tok == Split(QualifyingSentences(user_text)[i])[1]
        IN  /\ \E k \in 2..Len(tok) : tok[k] \in UpperLetters
            /\ session_state["relations"][i][1] # tok

\* C6 as claimed: a sentence of exactly three tokens yields the empty predicate.
C6_ThreeTokensEmptyPredicate ==
    tab1 = "success" =>
        /\ RelationsAligned
        /\ \A i \in 1..Len(session_state["relations"]) :
            Len(Split(QualifyingSentences(user_text)[i])) = 3
                => session_state["relations"][i][2] = <<>>

\* C6 as amended: the predicate is the tokens strictly between the first and
\* the last, joined by single spaces; for a sentence of exactly three tokens
\* it is the middle token, and it is never empty.
C6_PredicateIsMiddleTokens ==
    tab1 = "success" =>
        /\ RelationsAligned
        /\ \A i \in 1..Len(session_state["relations"]) :
            LET parts == Split(QualifyingSentences(user_text)[i])
                pred == session_state["relations"][i][2]
            IN  /\ Split(pred) = SubSeq(parts, 2, Len(parts) - 1)
                /\ Len(pred) > 0
                /\ \A k \in 1..Len(pred) :
                     pred[k] \in Whitespace =>
                        /\ pred[k] = " "
                        /\ 1 < k /\ k < Len(pred)
                        /\ pred[k + 1] \notin Whitespace
                /\ Len(parts) = 3 => pred = parts[2]

\* a sentence of exactly three tokens, written with a run of two spaces
C6_Witness ==
    /\ tab1 = "success"
    /\ \E i \in 1..Len(session_state["relations"]) :
        /\ Len(Split(QualifyingSentences(user_text)[i])) = 3
        /\ session_state["relations"][i][2] # <<>>
        /\ Contains(QualifyingSentences(user_text)[i], <<" ", " ">>)

\* the question contains the token, letter case set aside
ContainsAnyCase(question, token) ==
    \E i \in 0..(Len(question) - Len(token)) :
        \A k \in 1..Len(token) : ToLower(question[i + k]) = ToLower(token[k])

\* the indices of the stored relations an endpoint of which the question contains
Hits ==
    {i \in 1..Len(session_state["relations"]) :
        \/ ContainsAnyCase(query, session_state["relations"][i][1])
        \/ ContainsAnyCase(query, session_state["relations"][i][3])}

\* C7: a stored relation (S, P, O) is in the query result if the question
\* contains S in any letter case, is not in it if the question contains
\* neither S nor O, and the results keep the stored relation order.
C7_QueryContainment ==
    tab3 \in {"results", "nomatch"} =>
        LET relations == session_state["relations"]
        IN  /\ \A i \in 1..Len(relations) :
                /\ ContainsAnyCase(query, relations[i][1])
                      => Describe(relations[i]) \in Range(found)
                /\ (~ContainsAnyCase(query, relations[i][1])
                        /\ ~ContainsAnyCase(query, relations[i][3]))
                      => Describe(relations[i]) \notin Range(found)
            /\ Len(found) = Cardinality(Hits)
            /\ \A j \in 1..Len(found) :
                 found[j] = Describe(relations[
                               CHOOSE i \in Hits : Cardinality({m \in Hits : m <= i}) = j])

\* a question matched a subject written in another case, skipped a relation
\* between two results, and left one relation out
C7_Witness ==
    /\ tab3 = "results"
    /\ Len(found) >= 2
    /\ \E i \in Hits : i + 1 \notin Hits /\ \E m \in Hits : m > i
    /\ \E i \in Hits :
        /\ ContainsAnyCase(query, session_state["relations"][i][1])
        /\ ~Contains(query, session_state["relations"][i][1])

\* the nodes of a graph: what stands as subject or as object of a statement
Nodes(g) == {t[1] : t \in g} \cup {t[3] : t \in g}

\* C8 as claimed: every node that is subject or object of any statement of
\* the generated RDF graph has a type assertion to Class.
C8_EveryNodeTyped ==
    HasExports(session_state) =>
        LET g == DocStatements(session_state["rdf"])
        IN  \A n \in Nodes(g) : <<n, RDF_type, RDFS_Class>> \in g

\* C8 as amended: every node other than Class itself, which is the object of
\* the type assertions, has a type assertion to Class.
C8_EveryNodeButClassTyped ==
    HasExports(session_state) =>
        LET g == DocStatements(session_state["rdf"])
        IN  \A n \in Nodes(g) \ {RDFS_Class} : <<n, RDF_type, RDFS_Class>> \in g

\* a generated graph that links two different nodes
C8_Witness ==
    /\ HasExports(session_state)
    /\ LET g == DocStatements(session_state["rdf"])
       IN  \E t \in g : t[2] # RDF_type /\ t[1] # t[3]

\* C9: the merged graph is the set union of the session's statements and the
\* uploaded ones, none dropped or reconciled, and the same set results with
\* base and upload exchanged.
C9_MergeIsUnion ==
    tab4 = "merged" =>
        LET A == DocStatements(session_state["rdf"])
            B == DocStatements(uploaded[1])
            M == DocStatements(merged[1])
        IN  /\ \A t \in A \cup B : t \in M
            /\ \A t \in M : t \in A \/ t \in B
            /\ M = MergeGraphs(uploaded[1], session_state["rdf"])

\* a merge of graphs that share a statement, each hold one the other lacks,
\* and disagree on the object of one subject and predicate
C9_Witness ==
    /\ tab4 = "merged"
    /\ LET A == DocStatements(session_state["rdf"])
           B == DocStatements(uploaded[1])
       IN  /\ A \cap B # {}
           /\ A \ B # {}
           /\ B \ A # {}
           /\ \E a \in A, b \in B : a[1] = b[1] /\ a[2] = b[2] /\ a[3] # b[3]

\* C10 as claimed: a merge action, whether the upload parses or not, leaves
\* the store as it was and ends only itself: the run goes on to the next tab.
C10_MergeFailureIsLocal ==
    [][ (pc = "tab4" /\ uploaded' # <<>>)
            => (session_state' = session_state /\ pc' = "tab5") ]_vars

====
